---- MODULE Spec2Model ----
(***************************************************************************)
(* Model of setup.py: the _MatlabFinder build step that locates a MATLAB   *)
(* installation before the package is built and writes _arch.txt.          *)
(*                                                                         *)
(* A Python string that the program takes apart or puts together (a path, *)
(* the search-path variable, a registry subkey, the written file) is a     *)
(* sequence of atoms.  An atom is a piece of text the program never looks  *)
(* inside ("bin", "glnxa64", "R2022a") or a single character it does look  *)
(* at (a path separator, os.pathsep, a newline, the characters of a        *)
(* version number).  endswith, startswith, split, os.path.join and         *)
(* os.path.normpath are computed on these sequences as Python computes     *)
(* them on characters.  A string the program only compares, looks up or    *)
(* embeds (the platform name, the architecture tag, a release) is one      *)
(* atom, written as a TLA+ string, and "" is Python's empty string.        *)
(***************************************************************************)
EXTENDS Integers, Sequences, FiniteSets, TLC

VARIABLES
    \* ---- the host, fixed for the length of a run
    sysname,        \* platform.system()
    mac_ver,        \* platform.mac_ver()[-1]
    version_info,   \* sys.version_info as <<major, minor>>
    environ,        \* os.environ: a function from the names that are set
    files,          \* the filesystem's regular files: normalised path -> content
    dirs,           \* directories that exist beside the parents of the files
    registry,       \* HKLM\SOFTWARE\MathWorks\MATLAB
    \* ---- the _MatlabFinder object and the locals of the running method
    pc,             \* the statement of run() that executes next
    platform, path_name, arch, python_ver, found_matlab,
    path_dirs, dir_idx, ending_idx, matlab_root,
    idx, found_vers, key_value,
    \* ---- what the run leaves behind
    raised,         \* the exception that ended the run, <<>> while there is none
    arch_txt,       \* content of src/matlab/engine/_arch.txt, NoFile when absent
    arch_txt0,      \* its content before the run
    built,          \* build_py.run(self) was started
    log             \* the accesses made so far, oldest first: <<operation, argument>>

host == <<sysname, mac_ver, version_info, environ, files, dirs, registry, arch_txt0>>
finder == <<platform, path_name, arch, python_ver, found_matlab>>
locals == <<path_dirs, dir_idx, ending_idx, matlab_root, idx, found_vers, key_value>>
vars == <<host, finder, locals, pc, raised, arch_txt, built, log>>

-----------------------------------------------------------------------------
(* Bounds of the model *)

\* entries in the search-path variable
MaxPathLen == 2
\* subkeys under the MATLAB registry key
MaxSubkeys == 2

-----------------------------------------------------------------------------
(* Python's str operations *)

EMPTY == <<>>

Last(s) == s[Len(s)]

\* str.endswith
EndsWith(s, suffix) ==
    /\ Len(suffix) <= Len(s)
    /\ SubSeq(s, Len(s) - Len(suffix) + 1, Len(s)) = suffix

\* str.startswith
StartsWith(s, prefix) ==
    /\ Len(prefix) <= Len(s)
    /\ SubSeq(s, 1, Len(prefix)) = prefix

\* str.split(sep) for a one-atom separator: "" splits to [""].
RECURSIVE Split(_, _)
Split(s, sep) ==
    IF \A i \in 1..Len(s) : s[i] # sep
    THEN <<s>>
    ELSE LET k == CHOOSE i \in 1..Len(s) :
                      s[i] = sep /\ \A j \in 1..(i - 1) : s[j] # sep
         IN  <<SubSeq(s, 1, k - 1)>> \o Split(SubSeq(s, k + 1, Len(s)), sep)

\* sep.join(parts)
RECURSIVE JoinWith(_, _)
JoinWith(parts, sep) ==
    IF parts = <<>> THEN EMPTY
    ELSE IF Len(parts) = 1 THEN parts[1]
    ELSE parts[1] \o sep \o JoinWith(Tail(parts), sep)

\* str(n) for 0 <= n < 100, one atom per digit
Digit(n) ==
    CASE n = 0 -> "0" [] n = 1 -> "1" [] n = 2 -> "2" [] n = 3 -> "3"
      [] n = 4 -> "4" [] n = 5 -> "5" [] n = 6 -> "6" [] n = 7 -> "7"
      [] n = 8 -> "8" [] n = 9 -> "9"

Str(n) == IF n < 10 THEN <<Digit(n)>> ELSE <<Digit(n \div 10), Digit(n % 10)>>

-----------------------------------------------------------------------------
(* os.path of the running platform *)

\* os.sep
Sep(sys) == IF sys = "Windows" THEN "\\" ELSE "/"

\* the characters os.path takes for a separator
Seps(sys) == IF sys = "Windows" THEN {"\\", "/"} ELSE {"/"}

\* os.pathsep
PathSep(sys) == IF sys = "Windows" THEN ";" ELSE ":"

\* os.pardir
pardir == <<"..">>

\* os.path.join(a, b) for a relative b
Join2(sys, a, b) ==
    IF a = EMPTY \/ Last(a) \in Seps(sys) THEN a \o b ELSE a \o <<Sep(sys)>> \o b

\* os.path.join(a, p1, ..., pn)
RECURSIVE Join(_, _, _)
Join(sys, a, parts) ==
    IF parts = <<>> THEN a ELSE Join(sys, Join2(sys, a, parts[1]), Tail(parts))

\* the components of a path: the runs of atoms between separators
RECURSIVE Components(_, _)
Components(sys, p) ==
    IF \A i \in 1..Len(p) : p[i] \notin Seps(sys)
    THEN <<p>>
    ELSE LET k == CHOOSE i \in 1..Len(p) :
                      p[i] \in Seps(sys) /\ \A j \in 1..(i - 1) : p[j] \notin Seps(sys)
         IN  <<SubSeq(p, 1, k - 1)>> \o Components(sys, SubSeq(p, k + 1, Len(p)))

\* normpath's loop over the components: drops "" and ".", folds "..".
RECURSIVE Fold(_, _, _)
Fold(comps, acc, rooted) ==
    IF comps = <<>> THEN acc
    ELSE LET c == Head(comps)
         IN  IF c = EMPTY \/ c = <<".">>
             THEN Fold(Tail(comps), acc, rooted)
             ELSE IF c # pardir
                     \/ (~rooted /\ acc = <<>>)
                     \/ (acc # <<>> /\ Last(acc) = pardir)
             THEN Fold(Tail(comps), Append(acc, c), rooted)
             ELSE IF acc # <<>>
             THEN Fold(Tail(comps), SubSeq(acc, 1, Len(acc) - 1), rooted)
             ELSE Fold(Tail(comps), acc, rooted)

\* os.path.normpath
NormPath(sys, p) ==
    IF p = EMPTY THEN <<".">>
    ELSE LET rooted == p[1] \in Seps(sys)
             slashes == IF ~rooted THEN <<>>
                        ELSE IF sys # "Windows" /\ Len(p) >= 2 /\ p[2] = "/"
                                /\ ~(Len(p) >= 3 /\ p[3] = "/")
                             THEN <<"/", "/">>
                             ELSE <<Sep(sys)>>
             body == JoinWith(Fold(Components(sys, p), <<>>, rooted), <<Sep(sys)>>)
             path == slashes \o body
         IN  IF path = EMPTY THEN <<".">> ELSE path

-----------------------------------------------------------------------------
(* Class attributes of _MatlabFinder *)

PLATFORM_DICT ==
    [p \in {"Windows", "Linux", "Darwin"} |->
        CASE p = "Windows" -> "PATH"
          [] p = "Linux"   -> "LD_LIBRARY_PATH"
          [] p = "Darwin"  -> "DYLD_LIBRARY_PATH"]

MATLAB_REL == "R2022a"

MATLAB_VER == <<"9", ".", "1", "2">>

\* mutant: 3.10 taken for a supported version
SUPPORTED_PYTHON_VERSIONS_and_3_10 ==
    {<<"3", ".", "8">>, <<"3", ".", "9">>, <<"3", ".", "1", "0">>}

SUPPORTED_PYTHON_VERSIONS == {<<"3", ".", "8">>, <<"3", ".", "9">>}

VER_TO_REL ==
    [v \in {"9.6", "9.7", "9.8", "9.9", "9.10", "9.11", "9.12"} |->
        CASE v = "9.6"  -> "R2019a"
          [] v = "9.7"  -> "R2019b"
          [] v = "9.8"  -> "R2020a"
          [] v = "9.9"  -> "R2020b"
          [] v = "9.10" -> "R2021a"
          [] v = "9.11" -> "R2021b"
          [] v = "9.12" -> "R2022a"]

DEFAULT_INSTALLS ==
    [p \in {"Darwin", "Linux"} |->
        CASE p = "Darwin" -> <<"/", "Applications", "/", "MATLAB_", MATLAB_REL, ".app">>
          [] p = "Linux"  -> <<"/", "usr", "/", "local", "/", "MATLAB", "/", MATLAB_REL>>]

\* raise RuntimeError(<message attribute>.format(args)); raised is <<>> until then
NoError == <<>>
RuntimeError(message, args) == <<message, args>>
\* xml.etree.ElementTree.ParseError out of xml.parse
ParseError(path) == <<"ParseError", <<path>>>>

-----------------------------------------------------------------------------
(* The filesystem and the registry as the run reads them *)

\* content of a regular file: whether xml.parse accepts it, and the children
\* of its root element in document order
Content(parses, children) == [parses |-> parses, children |-> children]
Child(tag, text) == [tag |-> tag, text |-> text]

\* os.path.isfile
isfile(p) == NormPath(sysname, p) \in DOMAIN files

IsAncestor(sys, d, f) ==
    /\ Len(d) < Len(f)
    /\ StartsWith(f, d)
    /\ (Last(d) \in Seps(sys) \/ f[Len(d) + 1] \in Seps(sys))

\* os.path.isdir: a directory that was made, or the parent of something
isdir(p) ==
    LET n == NormPath(sysname, p)
    IN  \/ n \in dirs
        \/ n = <<".">>
        \/ \E f \in DOMAIN files \cup dirs : IsAncestor(sysname, n, f)

\* os.path.exists
exists(p) == isfile(p) \/ isdir(p)

\* the log entry of one access
Access(op, arg) == <<op, arg>>

-----------------------------------------------------------------------------
(* The hosts a run is checked on *)

NoFile == <<"(no such file)">>

\* what a directory holds under the name VersionInfo.xml
Absent == [kind |-> "absent", release |-> ""]
Malformed == [kind |-> "malformed", release |-> ""]
NoRelease == [kind |-> "norelease", release |-> ""]
Release(r) == [kind |-> "release", release |-> r]

\* texts of the release element: the expected release, an older supported
\* release, a release older than R2019a, and a numeric version
ReleaseTexts == {MATLAB_REL, "R2021a", "R2018b", "9.10"}

VersionInfoChoices == {Absent, Malformed, NoRelease} \cup {Release(r) : r \in ReleaseTexts}

VersionInfoContent(c) ==
    CASE c.kind = "malformed" -> Content(FALSE, <<>>)
      [] c.kind = "norelease" -> Content(TRUE, <<Child("version", "9.12.0")>>)
      [] c.kind = "release"   -> Content(TRUE, <<Child("version", "9.12.0"),
                                                 Child("release", c.release),
                                                 Child("description", "")>>)

\* the function with the graph S, a set of <<argument, value>> pairs
FunctionOf(S) == [a \in {s[1] : s \in S} |-> (CHOOSE s \in S : s[1] = a)[2]]

\* sequences over S of length 1..n
SeqsUpTo(S, n) == UNION {[1..k -> S] : k \in 1..n}

\* the architecture tag set_platform_and_arch gives the host
ArchOf(sys, mac) ==
    CASE sys = "Windows" -> "win64"
      [] sys = "Linux"   -> "glnxa64"
      [] sys = "Darwin"  -> IF mac = "arm64" THEN "maca64" ELSE "maci64"
      [] OTHER           -> ""

\* MATLAB roots on a UNIX host, beside the default one
UnixRoots == {<<"/", "x">>, <<"/">>}

\* entries of the search-path variable: the bin/<arch> of each root, one of
\* them written with a trailing separator, a directory that is no bin/<arch>,
\* and the empty entry
UnixEntries(a) ==
    { <<"/", "x", "/", "bin", "/", a>>,
      <<"/", "bin", "/", a, "/">>,
      <<"/", "x", "/", "lib">>,
      EMPTY }

UnixFiles(a, markers, info, default) ==
    FunctionOf(
        {<<Join("Linux", r, <<<<"bin">>, <<a>>, <<"MATLAB">>>>), Content(FALSE, <<>>)>> :
            r \in markers}
        \cup
        {<<Join("Linux", r, <<<<"VersionInfo.xml">>>>), VersionInfoContent(info[r])>> :
            r \in {q \in UnixRoots : info[q] # Absent}}
        \cup
        {<<Join("Linux", d, <<<<"VersionInfo.xml">>>>), VersionInfoContent(Release(MATLAB_REL))>> :
            d \in {q \in {default.root} : default.state = "valid"}})

\* MATLABROOT values in the registry
WindowsRoots == {<<"C:", "\\", "M">>, <<"C:", "\\", "N", "\\">>}

\* names of registry subkeys
Subkeys ==
    { <<"9", ".", "9">>,
      <<"9", ".", "1", "0">>,
      <<"9", ".", "1", "1", ".", "0">>,
      <<"9", ".", "1", "2">>,
      <<"9", ".", "1", "2", ".", "3">> }

Injective(q) == \A i, j \in 1..Len(q) : q[i] = q[j] => i = j

WindowsFiles(valid) ==
    FunctionOf(
        {<<NormPath("Windows", Join("Windows", r, <<<<"VersionInfo.xml">>>>)),
           VersionInfoContent(Release(MATLAB_REL))>> : r \in valid})

OldRecord == <<"old">>

InitFinder ==
    /\ pc = "set_platform_and_arch"
    /\ platform = "" /\ path_name = "" /\ arch = ""
    /\ python_ver = EMPTY /\ found_matlab = ""
    /\ path_dirs = <<>> /\ dir_idx = 0 /\ ending_idx = 0 /\ matlab_root = EMPTY
    /\ idx = 0 /\ found_vers = <<>> /\ key_value = EMPTY
    /\ raised = NoError /\ built = FALSE /\ log = <<>>
    /\ arch_txt = arch_txt0

NoRegistry == [present |-> FALSE, subkeys |-> <<>>, roots |-> <<>>]

\* values of os.environ that set the search-path variable to at most
\* MaxPathLen entries, and the one that leaves it unset
Environs(sys, a) ==
    {<<>>} \cup
    { FunctionOf({<<PLATFORM_DICT[sys], JoinWith(entries, <<PathSep(sys)>>)>>}) :
        entries \in SeqsUpTo(UnixEntries(a), MaxPathLen) }

\* sys.version_info of the interpreters a run is started with
PythonVersions == {<<3, 7>>, <<3, 8>>, <<3, 9>>, <<3, 10>>}

UnixHost ==
    /\ sysname \in {"Linux", "Darwin"}
    /\ mac_ver \in IF sysname = "Darwin" THEN {"arm64", "x86_64"} ELSE {""}
    /\ registry = NoRegistry

\* A UNIX host without MATLAB in the default location: every search path over
\* every state of the two roots.
InitSearch ==
    /\ UnixHost
    /\ version_info = <<3, 9>>
    /\ environ \in Environs(sysname, ArchOf(sysname, mac_ver))
    /\ dirs = {}
    /\ \E markers \in SUBSET UnixRoots, info \in [UnixRoots -> VersionInfoChoices] :
          files = UnixFiles(ArchOf(sysname, mac_ver), markers, info,
                            [root |-> DEFAULT_INSTALLS[sysname], state |-> "none"])

\* A UNIX host with a directory in the default location, with or without a
\* VersionInfo.xml in it.  The search path is not read on such a host.
InitDefault ==
    /\ UnixHost
    /\ version_info = <<3, 9>>
    /\ environ \in Environs(sysname, ArchOf(sysname, mac_ver))
    /\ \E state \in {"bare", "valid"}, info \in {Absent, Release(MATLAB_REL)} :
          /\ files = UnixFiles(ArchOf(sysname, mac_ver), UnixRoots,
                               [r \in UnixRoots |-> info],
                               [root |-> DEFAULT_INSTALLS[sysname], state |-> state])
          /\ dirs = IF state = "bare" THEN {DEFAULT_INSTALLS[sysname]} ELSE {}

\* A Windows host: every registry of at most MaxSubkeys subkeys, each with or
\* without a MATLABROOT value.  A key that is not there has no subkeys.
InitWindows ==
    /\ sysname = "Windows"
    /\ mac_ver = ""
    /\ version_info = <<3, 9>>
    /\ environ = <<>>
    /\ dirs = {NormPath("Windows", r) : r \in WindowsRoots}
    /\ \E valid \in SUBSET WindowsRoots : files = WindowsFiles(valid)
    /\ \/ registry = NoRegistry
       \/ \E keys \in {<<>>} \cup {q \in SeqsUpTo(Subkeys, MaxSubkeys) : Injective(q)} :
          \E with \in SUBSET {keys[i] : i \in 1..Len(keys)} :
          \E value \in [with -> WindowsRoots] :
             registry = [present |-> TRUE, subkeys |-> keys, roots |-> value]

\* Every platform under every interpreter, on a host where MATLAB is where the
\* platform's first look finds it.  Neither guard reads more of the host.
InitGuards ==
    /\ sysname \in {"Windows", "Linux", "Darwin", "FreeBSD"}
    /\ mac_ver \in IF sysname = "Darwin" THEN {"arm64", "x86_64"} ELSE {""}
    /\ version_info \in PythonVersions
    /\ environ = <<>>
    /\ dirs = {}
    /\ IF sysname = "Windows"
       THEN /\ files = WindowsFiles(WindowsRoots)
            /\ registry = [present |-> TRUE, subkeys |-> <<MATLAB_VER>>,
                           roots |-> FunctionOf({<<MATLAB_VER, <<"C:", "\\", "M">>>>})]
       ELSE /\ files = IF sysname \in DOMAIN DEFAULT_INSTALLS
                       THEN UnixFiles("", {}, [r \in UnixRoots |-> Absent],
                                      [root |-> DEFAULT_INSTALLS[sysname], state |-> "valid"])
                       ELSE <<>>
            /\ registry = NoRegistry

Init ==
    /\ InitSearch \/ InitDefault \/ InitWindows \/ InitGuards
    /\ arch_txt0 \in {NoFile, OldRecord}
    /\ InitFinder

-----------------------------------------------------------------------------
(* The methods of _MatlabFinder *)

\* mutant: the error is recorded and the run goes on to write
Raise_and_write(e) == /\ raised' = e
                      /\ pc' = "write_text_file"

Raise(e) == /\ raised' = e
            /\ pc' = "raised"

\* mutant: a file that is not well-formed is read as an empty document
parse_never_raises(tree) == FALSE

\* line 196: xml.parse raises on a file that is not well-formed
parse_raises(tree) == ~tree.parses

\* mutant: any release read is accepted
release_is_read(matlab_release) == matlab_release # ""

\* lines 205-207: the release read is the supported one
release_matches(matlab_release) == matlab_release = MATLAB_REL

\* verify_matlab_release(root) with self.found_matlab = found: the value
\* returned, self.found_matlab afterwards, the exception that left the method
\* and the accesses made
verify_matlab_release(root, found) ==
    LET version_info_xml == Join(sysname, root, <<<<"VersionInfo.xml">>>>)
        looked == <<Access("isfile", version_info_xml)>>
    IN  IF ~isfile(version_info_xml)
        THEN [ret |-> FALSE, found_matlab |-> found, raised |-> NoError, log |-> looked]
        ELSE LET tree == files[NormPath(sysname, version_info_xml)]
                 parsed == Append(looked, Access("parse", version_info_xml))
                 tree_root == IF tree.parses THEN tree.children ELSE <<>>
                 releases == {i \in 1..Len(tree_root) : tree_root[i].tag = "release"}
                 first == CHOOSE i \in releases : \A j \in releases : i <= j
                 matlab_release == IF releases = {} THEN "" ELSE tree_root[first].text
             IN  IF parse_raises(tree)
                 THEN [ret |-> FALSE, found_matlab |-> found,
                       raised |-> ParseError(version_info_xml), log |-> parsed]
                 ELSE [ret |-> release_matches(matlab_release),
                       found_matlab |-> IF releases = {} THEN found ELSE matlab_release,
                       raised |-> NoError, log |-> parsed]

\* _get_matlab_root_from_unix_bin(dir), reported as verify_matlab_release is
get_matlab_root_from_unix_bin(dir, found) ==
    LET matlab_path == Join(sysname, dir, <<<<"MATLAB">>>>)
        possible_root == NormPath(sysname, Join(sysname, dir, <<pardir, pardir>>))
        looked == <<Access("isfile", matlab_path)>>
        v == verify_matlab_release(possible_root, found)
    IN  IF ~isfile(matlab_path)
        THEN [root |-> EMPTY, found_matlab |-> found, raised |-> NoError, log |-> looked]
        ELSE [root |-> IF v.raised = NoError /\ v.ret THEN possible_root ELSE EMPTY,
              found_matlab |-> v.found_matlab, raised |-> v.raised,
              log |-> looked \o v.log]

\* mutant: the ending with the trailing separator is forgotten
endings_without_separator == <<Join(sysname, <<"bin">>, <<<<arch>>>>)>>

\* the endings search_path_for_directory_unix looks for
endings ==
    LET dir_to_find == Join(sysname, <<"bin">>, <<<<arch>>>>)
    IN  <<dir_to_find, dir_to_find \o <<Sep(sysname)>>>>

\* mutant: the engine directory is written before the binary directory
arch_file_text_reordered(root) ==
    LET bin_arch == Join(sysname, root, <<<<"bin">>, <<arch>>>>)
        engine_arch == Join(sysname, root,
            <<<<"extern">>, <<"engines">>, <<"python">>, <<"dist">>, <<"matlab">>,
              <<"engine">>, <<arch>>>>)
        extern_bin == Join(sysname, root, <<<<"extern">>, <<"bin">>, <<arch>>>>)
    IN  <<arch, "\n">> \o engine_arch \o <<"\n">> \o bin_arch \o <<"\n">> \o extern_bin

\* the text write_text_file writes for a root
arch_file_text(root) ==
    LET bin_arch == Join(sysname, root, <<<<"bin">>, <<arch>>>>)
        engine_arch == Join(sysname, root,
            <<<<"extern">>, <<"engines">>, <<"python">>, <<"dist">>, <<"matlab">>,
              <<"engine">>, <<arch>>>>)
        extern_bin == Join(sysname, root, <<<<"extern">>, <<"bin">>, <<arch>>>>)
    IN  <<arch, "\n">> \o bin_arch \o <<"\n">> \o engine_arch \o <<"\n">> \o extern_bin

\* where write_text_file writes, below os.getcwd()
file_location == <<"src", "/", "matlab", "/", "engine", "/", "_arch.txt">>

set_platform_and_arch ==
    /\ pc = "set_platform_and_arch"
    /\ platform' = sysname
    /\ IF sysname \notin DOMAIN PLATFORM_DICT
       THEN /\ Raise(RuntimeError("unsupported_platform", <<sysname>>))
            /\ UNCHANGED <<path_name, arch>>
       ELSE /\ path_name' = PLATFORM_DICT[sysname]
            /\ arch' = CASE sysname = "Windows" -> "win64"
                         [] sysname = "Linux"   -> "glnxa64"
                         [] sysname = "Darwin"  ->
                                IF mac_ver = "arm64" THEN "maca64" ELSE "maci64"
            /\ pc' = "set_python_version"
            /\ UNCHANGED raised
    /\ UNCHANGED <<host, python_ver, found_matlab, locals, arch_txt, built, log>>

set_python_version ==
    /\ pc = "set_python_version"
    /\ python_ver' = Str(version_info[1]) \o <<".">> \o Str(version_info[2])
    /\ IF python_ver' \notin SUPPORTED_PYTHON_VERSIONS
       THEN Raise(RuntimeError("unsupported_python", <<python_ver'>>))
       ELSE pc' = "run" /\ UNCHANGED raised
    /\ UNCHANGED <<host, platform, path_name, arch, found_matlab, locals,
                   arch_txt, built, log>>

unix_default_install_exists ==
    /\ pc = "run"
    /\ platform # "Windows"
    /\ LET path == DEFAULT_INSTALLS[platform]
       IN  /\ log' = Append(log, Access("exists", path))
           /\ IF exists(path)
              THEN matlab_root' = path /\ pc' = "write_text_file"
              ELSE pc' = "_create_path_list" /\ UNCHANGED matlab_root
    /\ UNCHANGED <<host, finder, path_dirs, dir_idx, ending_idx, idx, found_vers,
                   key_value, raised, arch_txt, built>>

create_path_list ==
    /\ pc = "_create_path_list"
    /\ log' = Append(log, Access("environ", path_name))
    /\ LET dirs_found == IF path_name \in DOMAIN environ
                         THEN Split(environ[path_name], PathSep(sysname))
                         ELSE <<>>
       IN  IF dirs_found = <<>>
           THEN /\ Raise(RuntimeError("set_path", <<path_name, arch, path_name>>))
                /\ UNCHANGED <<path_dirs, dir_idx, matlab_root>>
           ELSE /\ path_dirs' = dirs_found
                /\ dir_idx' = 0
                /\ matlab_root' = EMPTY
                /\ pc' = "while_dir_idx"
                /\ UNCHANGED raised
    /\ UNCHANGED <<host, finder, ending_idx, idx, found_vers, key_value, arch_txt, built>>

\* line 222: the test of the outer loop, and lines 223-224
while_dir_idx ==
    /\ pc = "while_dir_idx"
    /\ IF matlab_root = EMPTY /\ dir_idx < Len(path_dirs)
       THEN ending_idx' = 0 /\ pc' = "while_ending_idx"
       ELSE pc' = "after_search" /\ UNCHANGED ending_idx
    /\ UNCHANGED <<host, finder, path_dirs, dir_idx, matlab_root, idx, found_vers,
                   key_value, raised, arch_txt, built, log>>

\* line 225: the test of the inner loop, then lines 226-231, or line 232
while_ending_idx ==
    /\ pc = "while_ending_idx"
    /\ IF matlab_root = EMPTY /\ ending_idx < Len(endings)
       THEN LET path == path_dirs[dir_idx + 1]
                ending == endings[ending_idx + 1]
                got == get_matlab_root_from_unix_bin(path, found_matlab)
            IN  IF EndsWith(path, ending)
                THEN /\ log' = log \o got.log
                     /\ found_matlab' = got.found_matlab
                     /\ IF got.raised # NoError
                        THEN Raise(got.raised) /\ UNCHANGED <<matlab_root, ending_idx>>
                        ELSE /\ matlab_root' = got.root
                             /\ ending_idx' = ending_idx + 1
                             /\ UNCHANGED <<pc, raised>>
                     /\ UNCHANGED dir_idx
                ELSE /\ ending_idx' = ending_idx + 1
                     /\ UNCHANGED <<pc, raised, log, found_matlab, matlab_root, dir_idx>>
       ELSE /\ dir_idx' = dir_idx + 1
            /\ pc' = "while_dir_idx"
            /\ UNCHANGED <<raised, log, found_matlab, matlab_root, ending_idx>>
    /\ UNCHANGED <<host, platform, path_name, arch, python_ver, path_dirs, idx,
                   found_vers, key_value, arch_txt, built>>

\* mutant: the root is tested with os.path.isfile
root_is_no_file(root) == ~isfile(root)

\* line 244
root_missing(root) == ~isdir(root)

\* lines 234-246
after_search ==
    /\ pc = "after_search"
    /\ IF matlab_root = EMPTY
       THEN /\ Raise(IF found_matlab # ""
                     THEN IF found_matlab \in DOMAIN VER_TO_REL
                          THEN RuntimeError("incompatible_ver",
                                            <<VER_TO_REL[found_matlab], found_matlab>>)
                          ELSE RuntimeError("minimum_required", <<>>)
                     ELSE RuntimeError("set_path", <<path_name, arch, path_name>>))
            /\ UNCHANGED log
       ELSE /\ log' = Append(log, Access("isdir", matlab_root))
            /\ IF root_missing(matlab_root)
               THEN Raise(RuntimeError("dir_not_found", <<matlab_root>>))
               ELSE pc' = "write_text_file" /\ UNCHANGED raised
    /\ UNCHANGED <<host, finder, locals, arch_txt, built>>

get_matlab_root_from_windows_reg ==
    /\ pc = "run"
    /\ platform = "Windows"
    /\ log' = Append(log, Access("OpenKey", EMPTY))
    /\ IF ~registry.present
       THEN /\ Raise(RuntimeError("no_windows_install", <<>>))
            /\ UNCHANGED <<idx, found_vers, key_value>>
       ELSE /\ idx' = 0
            /\ found_vers' = <<>>
            /\ key_value' = EMPTY
            /\ pc' = "for_idx"
            /\ UNCHANGED raised
    /\ UNCHANGED <<host, finder, path_dirs, dir_idx, ending_idx, matlab_root,
                   arch_txt, built>>

\* mutant: the subkey has to equal the version
equals_version(sub_key) == sub_key = MATLAB_VER

\* line 174
matches_version(sub_key) == StartsWith(sub_key, MATLAB_VER)

\* lines 169-176: one pass of the loop of _find_matlab_key_from_windows_registry
for_idx ==
    /\ pc = "for_idx"
    /\ LET num_keys == Len(registry.subkeys)
       IN  IF idx < num_keys
           THEN LET sub_key == registry.subkeys[idx + 1]
                IN  /\ log' = Append(log, Access("EnumKey", <<idx>>))
                    /\ found_vers' = Append(found_vers, sub_key)
                    /\ idx' = idx + 1
                    /\ IF matches_version(sub_key)
                       THEN key_value' = sub_key /\ pc' = "after_for"
                       ELSE UNCHANGED <<key_value, pc>>
           ELSE /\ pc' = "after_for"
                /\ UNCHANGED <<log, found_vers, idx, key_value>>
    /\ UNCHANGED <<host, finder, path_dirs, dir_idx, ending_idx, matlab_root,
                   raised, arch_txt, built>>

\* lines 178-185, and the return to line 145
after_for ==
    /\ pc = "after_for"
    /\ IF key_value = EMPTY
       THEN Raise(IF found_vers # <<>>
                  THEN RuntimeError("no_compatible_matlab",
                           <<MATLAB_VER, JoinWith(found_vers, <<", ">>), Last(found_vers)>>)
                  ELSE RuntimeError("no_matlab", <<>>))
       ELSE pc' = "_get_root_from_version_key" /\ UNCHANGED raised
    /\ UNCHANGED <<host, finder, locals, arch_txt, built, log>>

get_root_from_version_key ==
    /\ pc = "_get_root_from_version_key"
    /\ log' = Append(log, Access("OpenKey", key_value))
    /\ IF key_value \in DOMAIN registry.roots
       THEN /\ matlab_root' = registry.roots[key_value]
            /\ pc' = "write_text_file"
            /\ UNCHANGED raised
       ELSE /\ Raise(RuntimeError("no_windows_install", <<key_value>>))
            /\ UNCHANGED matlab_root
    /\ UNCHANGED <<host, finder, path_dirs, dir_idx, ending_idx, idx, found_vers,
                   key_value, arch_txt, built>>

write_text_file ==
    /\ pc = "write_text_file"
    /\ log' = Append(log, Access("write", file_location))
    /\ arch_txt' = arch_file_text(matlab_root)
    /\ pc' = "build_py.run"
    /\ UNCHANGED <<host, finder, locals, raised, built>>

build_py_run ==
    /\ pc = "build_py.run"
    /\ built' = TRUE
    /\ pc' = "done"
    /\ UNCHANGED <<host, finder, locals, raised, arch_txt, log>>

Next ==
    \/ set_platform_and_arch
    \/ set_python_version
    \/ unix_default_install_exists
    \/ create_path_list
    \/ while_dir_idx
    \/ while_ending_idx
    \/ after_search
    \/ get_matlab_root_from_windows_reg
    \/ for_idx
    \/ after_for
    \/ get_root_from_version_key
    \/ write_text_file
    \/ build_py_run

Spec == Init /\ [][Next]_vars

-----------------------------------------------------------------------------
(* What the properties speak of, said without the program's own operators *)

Min(S) == CHOOSE i \in S : \A j \in S : i <= j

\* a string without its one trailing "/"
Stripped(e) == IF e # EMPTY /\ Last(e) = "/" THEN SubSeq(e, 1, Len(e) - 1) ELSE e

\* the entry ends with bin/<arch> or bin/<arch>/
SuffixMatches(e) ==
    LET t == Stripped(e)
    IN  /\ Len(t) >= 3
        /\ SubSeq(t, Len(t) - 2, Len(t)) = <<"bin", "/", arch>>

\* the directory two levels above a bin/<arch> entry
TwoUp(e) ==
    LET t == Stripped(e)
        x == SubSeq(t, 1, Len(t) - 3)
    IN  IF x = EMPTY THEN <<".">> ELSE IF x = <<"/">> THEN x ELSE Stripped(x)

MarkerOf(e) == Stripped(e) \o <<"/", "MATLAB">>

VersionInfoOf(root) ==
    IF Last(root) \in Seps(sysname)
    THEN root \o <<"VersionInfo.xml">>
    ELSE root \o <<Sep(sysname), "VersionInfo.xml">>

HasMarker(e) == MarkerOf(e) \in DOMAIN files

\* the root holds a well-formed VersionInfo.xml whose first release element
\* is the expected release
Verified(root) ==
    /\ VersionInfoOf(root) \in DOMAIN files
    /\ LET f == files[VersionInfoOf(root)]
       IN  /\ f.parses
           /\ \E i \in 1..Len(f.children) :
                 /\ f.children[i] = Child("release", MATLAB_REL)
                 /\ \A j \in 1..(i - 1) : f.children[j].tag # "release"

\* the root holds a VersionInfo.xml that is not well-formed
MalformedIn(root) ==
    /\ VersionInfoOf(root) \in DOMAIN files
    /\ ~files[VersionInfoOf(root)].parses

\* the three tests of the scan
Passes(e) == SuffixMatches(e) /\ HasMarker(e) /\ Verified(TwoUp(e))

\* a candidate the scan cannot get past
Aborts(e) == SuffixMatches(e) /\ HasMarker(e) /\ MalformedIn(TwoUp(e))

\* the accesses that examining one entry makes
ExaminationOf(e) ==
    IF ~SuffixMatches(e) THEN <<>>
    ELSE <<Access("isfile", MarkerOf(e))>> \o
         (IF ~HasMarker(e) THEN <<>>
          ELSE <<Access("isfile", VersionInfoOf(TwoUp(e)))>> \o
               (IF VersionInfoOf(TwoUp(e)) \notin DOMAIN files THEN <<>>
                ELSE <<Access("parse", VersionInfoOf(TwoUp(e)))>>))

\* the accesses that examining the first n entries makes
RECURSIVE Examined(_)
Examined(n) == IF n = 0 THEN <<>> ELSE Examined(n - 1) \o ExaminationOf(path_dirs[n])

IsProbe(a) == a[1] \in {"isfile", "parse"}

\* the marker checks and VersionInfo.xml reads made so far
Probes == SelectSeq(log, IsProbe)

Did(op) == \E i \in 1..Len(log) : log[i][1] = op

Written == Did("write")

\* the scan of the search path was started
Searched == path_dirs # <<>>

\* search_path_for_directory_unix returned a root
Returned == Searched /\ pc \in {"write_text_file", "build_py.run", "done"}

RaisedIs(messages) == raised # NoError /\ raised[1] \in messages

PassingEntries == {i \in 1..Len(path_dirs) : Passes(path_dirs[i])}

-----------------------------------------------------------------------------
(* C1: search_path_for_directory_unix is first-match.  When it returns, some
   entry ends with bin/<arch> or bin/<arch>/, has the MATLAB marker and a
   root that verifies; the root returned is the one two levels above the
   lowest such entry; the loop has stopped at that entry, and the marker
   checks and VersionInfo.xml reads made are exactly those of the entries up
   to it, in order.  When it fails with one of its own three messages, no
   entry passes. *)
FirstMatch ==
    /\ Returned =>
          /\ PassingEntries # {}
          /\ LET k == Min(PassingEntries)
             IN  /\ matlab_root = TwoUp(path_dirs[k])
                 /\ dir_idx = k
                 /\ Probes = Examined(k)
    /\ (Searched /\ RaisedIs({"set_path", "incompatible_ver", "minimum_required"}))
          => PassingEntries = {}

\* the scan returned the root of its second entry, written with a trailing
\* separator, after an entry that ends with bin/<arch> and fails
FirstMatchWitness ==
    /\ Returned
    /\ Len(path_dirs) = 2
    /\ SuffixMatches(path_dirs[1]) /\ ~Passes(path_dirs[1])
    /\ Last(path_dirs[2]) = "/"
    /\ matlab_root = TwoUp(path_dirs[2])

-----------------------------------------------------------------------------
\* the versions VER_TO_REL maps to a release
VersionsOf(release) == {v \in DOMAIN VER_TO_REL : VER_TO_REL[v] = release}

(* C2: when the scan ends without a root and the release last read from a
   rejected candidate is one VER_TO_REL lists, other than the expected one,
   the failure is incompatible_ver and names that release's version; the
   failure is minimum_required only when VER_TO_REL does not list the
   release. *)
OlderReleaseIsNamed ==
    (Searched /\ RaisedIs({"set_path", "incompatible_ver", "minimum_required"})) =>
        /\ (VersionsOf(found_matlab) # {} /\ found_matlab # MATLAB_REL) =>
              /\ raised[1] = "incompatible_ver"
              /\ raised[2][2] \in VersionsOf(found_matlab)
        /\ raised[1] = "minimum_required" => VersionsOf(found_matlab) = {}

-----------------------------------------------------------------------------
\* s begins with p, character by character
HasPrefix(s, p) == Len(s) >= Len(p) /\ \A i \in 1..Len(p) : s[i] = p[i]

\* the subkeys, by position, that the expected version is a prefix of
MatchingSubkeys ==
    {i \in 1..Len(registry.subkeys) : HasPrefix(registry.subkeys[i], MATLAB_VER)}

IsEnumKey(a) == a[1] = "EnumKey"

\* the EnumKey calls made so far
Enumerated == SelectSeq(log, IsEnumKey)

(* C3: the registry search selects the first subkey, in enumeration order,
   that starts with MATLAB_VER: once a subkey is selected it is that one and
   the subkeys enumerated are exactly those up to it; a run that goes on to
   write has taken the MATLABROOT value stored under that subkey; and the
   search fails with no_compatible_matlab or no_matlab only when no subkey
   starts with MATLAB_VER. *)
RegistryFirstMatch ==
    /\ (sysname = "Windows" /\ key_value # EMPTY) =>
          /\ MatchingSubkeys # {}
          /\ LET k == Min(MatchingSubkeys)
             IN  /\ key_value = registry.subkeys[k]
                 /\ Enumerated = [i \in 1..k |-> Access("EnumKey", <<i - 1>>)]
                 /\ pc \in {"write_text_file", "build_py.run", "done"} =>
                       /\ key_value \in DOMAIN registry.roots
                       /\ matlab_root = registry.roots[key_value]
    /\ RaisedIs({"no_compatible_matlab", "no_matlab"}) => MatchingSubkeys = {}

\* subkeys 9.11.0 and 9.12.3, in this order: the run took the root of 9.12.3
RegistryFirstMatchWitness ==
    /\ pc = "done"
    /\ registry.subkeys = << <<"9", ".", "1", "1", ".", "0">>,
                             <<"9", ".", "1", "2", ".", "3">> >>
    /\ key_value = <<"9", ".", "1", "2", ".", "3">>
    /\ matlab_root = registry.roots[key_value]

-----------------------------------------------------------------------------
DigitValue(c) ==
    CASE c = "0" -> 0 [] c = "1" -> 1 [] c = "2" -> 2 [] c = "3" -> 3 [] c = "4" -> 4
      [] c = "5" -> 5 [] c = "6" -> 6 [] c = "7" -> 7 [] c = "8" -> 8 [] c = "9" -> 9

RECURSIVE Number(_)
Number(digits) ==
    IF digits = <<>> THEN 0
    ELSE 10 * Number(SubSeq(digits, 1, Len(digits) - 1)) + DigitValue(Last(digits))

\* the numbers of a version: 9.12.3 is <<9, 12, 3>>
Numbers(version) ==
    LET parts == Split(version, ".") IN [i \in 1..Len(parts) |-> Number(parts[i])]

\* version a is newer than version b
RECURSIVE Newer(_, _)
Newer(a, b) ==
    IF a = <<>> THEN FALSE
    ELSE IF b = <<>> THEN TRUE
    ELSE IF Head(a) # Head(b) THEN Head(a) > Head(b)
    ELSE Newer(Tail(a), Tail(b))

IsNewest(version, versions) ==
    \A i \in 1..Len(versions) : ~Newer(Numbers(versions[i]), Numbers(version))

WindowsRunEnded == sysname = "Windows" /\ pc \in {"raised", "done"} /\ Did("OpenKey")

(* C4: when the registry key has subkeys and none starts with the expected
   version, the failure is no_compatible_matlab, its message lists every
   subkey found and its install hint names the newest of them, in whatever
   order the subkeys are enumerated; when the key has no subkeys the failure
   is no_matlab. *)
HintNamesNewest ==
    /\ (WindowsRunEnded /\ registry.present /\ MatchingSubkeys = {}) =>
          IF registry.subkeys = <<>>
          THEN RaisedIs({"no_matlab"})
          ELSE /\ RaisedIs({"no_compatible_matlab"})
               /\ Split(raised[2][2], ", ") = registry.subkeys
               /\ IsNewest(raised[2][3], registry.subkeys)

-----------------------------------------------------------------------------
\* the lines of a text
Lines(text) == Split(text, "\n")

\* root, one separator unless root is empty or ends in one, and the names
\* with a separator between them
Under(root, names) ==
    LET glue == IF root = EMPTY \/ Last(root) \in Seps(sysname)
                THEN <<>> ELSE <<Sep(sysname)>>
    IN  root \o glue \o [i \in 1..(2 * Len(names) - 1) |->
                            IF i % 2 = 1 THEN names[(i + 1) \div 2] ELSE Sep(sysname)]

(* C5, as stated: the file written holds exactly four lines: the architecture
   tag, <root>/bin/<arch>, <root>/extern/engines/python/dist/matlab/engine/<arch>
   and <root>/extern/bin/<arch>, the root followed by a separator and the
   fixed suffix, "/" read as the platform's separator; nothing of what the
   file held before is left. *)
FourLinesConcatenated ==
    LET sep == Sep(sysname)
    IN  Written =>
            Lines(arch_txt) =
                << <<arch>>,
                   matlab_root \o <<sep, "bin", sep, arch>>,
                   matlab_root \o <<sep, "extern", sep, "engines", sep, "python", sep,
                                    "dist", sep, "matlab", sep, "engine", sep, arch>>,
                   matlab_root \o <<sep, "extern", sep, "bin", sep, arch>> >>

(* C5, amended: the file written holds exactly four lines: the architecture
   tag, then bin/<arch>, extern/engines/python/dist/matlab/engine/<arch> and
   extern/bin/<arch> joined to the root with the platform's separator, which
   is not repeated after a root that ends in a separator; nothing of what the
   file held before is left. *)
FourLinesJoined ==
    Written =>
        Lines(arch_txt) =
            << <<arch>>,
               Under(matlab_root, <<"bin", arch>>),
               Under(matlab_root, <<"extern", "engines", "python", "dist", "matlab",
                                    "engine", arch>>),
               Under(matlab_root, <<"extern", "bin", arch>>) >>

\* a file that held a record is rewritten for a root that ends in a separator
FourLinesWitness ==
    /\ Written
    /\ arch_txt0 = OldRecord
    /\ Last(matlab_root) \in Seps(sysname)

-----------------------------------------------------------------------------
(* C6: a run that fails ends in the error state with _arch.txt as it was
   before the run, nothing written and the build step not started; the file
   differs from what it was only after a write, a write happens only with a
   root in hand and no error, and the build step starts only after the
   write. *)
FailureLeavesNothing ==
    /\ raised # NoError =>
          /\ pc = "raised"
          /\ arch_txt = arch_txt0
          /\ ~Written
          /\ ~built
    /\ ~Written => arch_txt = arch_txt0
    /\ Written => matlab_root # EMPTY /\ raised = NoError
    /\ built => Written

\* the scan failed on a host whose _arch.txt held a record
FailureLeavesNothingWitness ==
    /\ RaisedIs({"minimum_required"})
    /\ Searched
    /\ arch_txt = OldRecord

-----------------------------------------------------------------------------
(* C7: on an unsupported platform the run gets no further than
   set_platform_and_arch and fails with unsupported_platform; under an
   interpreter other than 3.8 and 3.9 it gets no further than
   set_python_version and fails with unsupported_python; in both cases no
   default-path check, registry call, read of the search-path variable,
   marker or VersionInfo.xml check or write has been made. *)
GuardsComeFirst ==
    /\ sysname \notin {"Windows", "Linux", "Darwin"} =>
          /\ pc \in {"set_platform_and_arch", "raised"}
          /\ pc = "raised" => RaisedIs({"unsupported_platform"})
          /\ log = <<>> /\ arch_txt = arch_txt0 /\ ~built
    /\ (sysname \in {"Windows", "Linux", "Darwin"}
            /\ version_info \notin {<<3, 8>>, <<3, 9>>}) =>
          /\ pc \in {"set_platform_and_arch", "set_python_version", "raised"}
          /\ pc = "raised" => RaisedIs({"unsupported_python"})
          /\ log = <<>> /\ arch_txt = arch_txt0 /\ ~built

\* Python 3.10 was refused on a supported platform
GuardsComeFirstWitness ==
    /\ RaisedIs({"unsupported_python"})
    /\ version_info = <<3, 10>>
    /\ log = <<>>

-----------------------------------------------------------------------------
(* C8, as stated: whenever a record is written, the root it is written for
   holds a VersionInfo.xml whose release is the expected release. *)
WrittenRootIsVerified == Written => Verified(matlab_root)

(* C8, amended: a record written after the search-path scan is written for a
   root that holds a VersionInfo.xml whose release is the expected release; a
   record written without the scan on a UNIX host is written for the default
   install path, which exists; a record written on Windows is written for the
   MATLABROOT value of the selected subkey. *)
WrittenRootByRoute ==
    Written =>
        IF sysname = "Windows"
        THEN /\ HasPrefix(key_value, MATLAB_VER)
             /\ matlab_root = registry.roots[key_value]
        ELSE IF Searched
        THEN Verified(matlab_root)
        ELSE /\ matlab_root = DEFAULT_INSTALLS[sysname]
             /\ exists(matlab_root)

\* a record written for a root the scan found
WrittenRootWitness == Written /\ Searched /\ Verified(matlab_root)

-----------------------------------------------------------------------------
\* the entries, by position, that end the scan: the ones that pass and the
\* ones with the marker and a malformed VersionInfo.xml
DecidingEntries ==
    {i \in 1..Len(path_dirs) : Passes(path_dirs[i]) \/ Aborts(path_dirs[i])}

(* C9: a run that scanned the search path and whose first deciding entry has
   the marker and a malformed VersionInfo.xml ended with the parse error of
   that file, examined no entry after it and wrote nothing; a run whose first
   deciding entry passes, whatever entries without a VersionInfo.xml come
   before it, returned that entry's root. *)
MalformedIsFatal ==
    (Searched /\ pc \in {"raised", "done"} /\ DecidingEntries # {}) =>
        LET k == Min(DecidingEntries)
        IN  IF Aborts(path_dirs[k])
            THEN /\ raised = ParseError(VersionInfoOf(TwoUp(path_dirs[k])))
                 /\ dir_idx = k - 1
                 /\ Probes = Examined(k)
                 /\ ~Written /\ arch_txt = arch_txt0 /\ ~built
            ELSE /\ raised = NoError
                 /\ matlab_root = TwoUp(path_dirs[k])

\* the parse error ended a run whose next entry passes both tests
MalformedIsFatalWitness ==
    /\ RaisedIs({"ParseError"})
    /\ Len(path_dirs) = 2
    /\ Aborts(path_dirs[1])
    /\ Passes(path_dirs[2])

-----------------------------------------------------------------------------
(* C10: the scan never fails with dir_not_found: a root it found is a
   directory. *)
RootIsDirectory == ~RaisedIs({"dir_not_found"})

\* the scan found a root and made its is-directory check
RootIsDirectoryWitness == Returned /\ Did("isdir")

====
